---- MODULE Spec2Model ----
(***************************************************************************)
(* Contact manager (src/bin/p2-example.rs): the line parser, the record    *)
(* store, the file codec and the orchestration in run().                   *)
(* Bill manager (src/bin/p1-example.rs): the menu flows over the bills.    *)
(*                                                                         *)
(* Text is a sequence of one-character strings, so that split, the integer *)
(* parser and the formatter are computed character by character.  An       *)
(* Option<T> is a sequence of length 0 (None) or 1 (Some(v)).  An i64 is    *)
(* an integer of IdBits bits: arithmetic past I64_MAX overflows.           *)
(***************************************************************************)
EXTENDS Integers, Sequences, FiniteSets, TLC

VARIABLES
    inner,    \* Records.inner of the store under test: id -> Record
    last,     \* history: id -> the record of the last add/edit call with that id
    gone,     \* history: ids removed and not added again since
    ret,      \* the last store call, its arguments, the store before it, its result
    cpc,      \* codec run: where the save/load run stands
    store0,   \* codec run: the store handed to save_records
    prior,    \* codec run: what the file held before save_records
    disk,     \* codec run: the content of the file
    loaded,   \* codec run: what parse_records returned, for each verbose flag
    file,     \* orchestration: the content of the data file
    procs,    \* orchestration: the state of each invocation of run()
    bills,    \* bill manager: Bills.inner, name -> Bill
    ui        \* bill manager: where main_menu stands, and what it last read

vars == <<inner, last, gone, ret, cpc, store0, prior, disk, loaded, file, procs,
          bills, ui>>

-----------------------------------------------------------------------------
(* Bounds *)

\* width of the id type in bits (the program's i64, scaled down)
IdBits == 5

I64_MAX == 2 ^ (IdBits - 1) - 1
I64_MIN == -(2 ^ (IdBits - 1))

-----------------------------------------------------------------------------
(* Option<T> *)

None == <<>>
Some(v) == <<v>>
IsSome(o) == Len(o) = 1

-----------------------------------------------------------------------------
(* Text *)

DigitChars == <<"0", "1", "2", "3", "4", "5", "6", "7", "8", "9">>

IsDigit(c) == \E d \in 1..10 : DigitChars[d] = c

DigitVal(c) == (CHOOSE d \in 1..10 : DigitChars[d] = c) - 1

\* str::split(pat): the pieces between the occurrences of pat; a text without
\* pat (the empty text too) is one piece
RECURSIVE split(_, _)
split(s, pat) ==
    IF \E i \in 1..Len(s) : s[i] = pat
    THEN LET i == CHOOSE k \in 1..Len(s) : s[k] = pat /\ \A j \in 1..(k - 1) : s[j] # pat
         IN  <<SubSeq(s, 1, i - 1)>> \o split(SubSeq(s, i + 1, Len(s)), pat)
    ELSE <<s>>

\* a faulty rendering that keeps the last digit only
fmt_nat_last_digit(n) == <<DigitChars[(n % 10) + 1]>>

\* the digits of a natural number, most significant first
RECURSIVE fmt_nat(_)
fmt_nat(n) ==
    IF n < 10 THEN <<DigitChars[n + 1]>>
    ELSE fmt_nat(n \div 10) \o <<DigitChars[(n % 10) + 1]>>

\* a faulty Display that drops the sign
fmt_i64_unsigned(n) == fmt_nat(IF n < 0 THEN -n ELSE n)

\* Display for i64, as format!("{}", record.id) renders it
fmt_i64(n) == IF n < 0 THEN <<"-">> \o fmt_nat(-n) ELSE fmt_nat(n)

\* the digits of i64::from_str_radix accumulated left to right, the sign applied
\* at each step; ok is FALSE on a non-digit and on leaving I64_MIN..I64_MAX
RECURSIVE accumulate(_, _, _, _)
accumulate(digits, i, sign, result) ==
    IF i > Len(digits) THEN [ok |-> TRUE, val |-> result]
    ELSE IF ~IsDigit(digits[i]) THEN [ok |-> FALSE, val |-> 0]
    ELSE LET next == result * 10 + sign * DigitVal(digits[i])
         IN  IF next > I64_MAX \/ next < I64_MIN THEN [ok |-> FALSE, val |-> 0]
             ELSE accumulate(digits, i + 1, sign, next)

\* i64::from_str_radix(src, 10)
from_str_radix(src) ==
    IF src = <<>> THEN [ok |-> FALSE, val |-> 0]
    ELSE IF src[1] \in {"+", "-"}
         THEN IF Len(src) = 1 THEN [ok |-> FALSE, val |-> 0]
              ELSE accumulate(Tail(src), 1, IF src[1] = "-" THEN -1 ELSE 1, 0)
         ELSE accumulate(src, 1, 1, 0)

-----------------------------------------------------------------------------
(* Record and Records *)

Record(id, name, email) == [id |-> id, name |-> name, email |-> email]

\* Records::new
new == <<>>

\* HashMap::insert
insert(map, k, v) == [x \in (DOMAIN map) \cup {k} |-> IF x = k THEN v ELSE map[x]]

\* HashMap::remove: the map without k
without(map, k) == [x \in (DOMAIN map) \ {k} |-> map[x]]

\* a faulty edit that refuses an id the store does not hold
edit_existing_only(recs, id, name, email) ==
    IF id \in DOMAIN recs THEN insert(recs, id, Record(id, name, email)) ELSE recs

\* Records::edit
edit(recs, id, name, email) == insert(recs, id, Record(id, name, email))

\* Records::add
add(recs, record) == insert(recs, record.id, record)

\* a faulty remove that reports the record and keeps it in the store
remove_reports_only(recs, id) ==
    IF id \in DOMAIN recs
    THEN [removed |-> Some(recs[id]), recs |-> recs]
    ELSE [removed |-> None, recs |-> recs]

\* Records::remove: the removed record (an Option) and the store left
remove(recs, id) ==
    IF id \in DOMAIN recs
    THEN [removed |-> Some(recs[id]), recs |-> without(recs, id)]
    ELSE [removed |-> None, recs |-> recs]

\* the orders in which a HashMap may yield the keys in S: every permutation
RECURSIVE Orders(_)
Orders(S) ==
    IF S = {} THEN {<<>>}
    ELSE UNION {{<<k>> \o rest : rest \in Orders(S \ {k})} : k \in S}

\* Vec::sort on ids: insertion into the sorted prefix
RECURSIVE sort_ids(_)
sort_ids(ids) ==
    IF ids = <<>> THEN <<>>
    ELSE LET init == sort_ids(SubSeq(ids, 1, Len(ids) - 1))
             x == ids[Len(ids)]
             n == Cardinality({i \in 1..Len(init) : init[i] <= x})
         IN  SubSeq(init, 1, n) \o <<x>> \o SubSeq(init, n + 1, Len(init))

\* a faulty sort_by_key that leaves the records in the order it got them
sort_by_key_none(records) == records

\* Vec::sort_by_key(|rec| rec.id): stable, an equal key stays behind the earlier one
RECURSIVE sort_by_key(_)
sort_by_key(records) ==
    IF records = <<>> THEN <<>>
    ELSE LET init == sort_by_key(SubSeq(records, 1, Len(records) - 1))
             x == records[Len(records)]
             n == Cardinality({i \in 1..Len(init) : init[i].id <= x.id})
         IN  SubSeq(init, 1, n) \o <<x>> \o SubSeq(init, n + 1, Len(init))

\* Records::next_id, the map yielding its keys in `order`.  `checked` is the
\* build's overflow-checks setting: id + 1 past I64_MAX panics when it is set
\* and wraps to I64_MIN when it is not.
next_id(recs, order, checked) ==
    LET ids == sort_ids(order)
    IN  IF ids = <<>> THEN [panic |-> FALSE, id |-> 1]
        ELSE LET id == ids[Len(ids)]
             IN  IF id + 1 > I64_MAX
                 THEN IF checked THEN [panic |-> TRUE, id |-> 0]
                      ELSE [panic |-> FALSE, id |-> I64_MIN]
                 ELSE [panic |-> FALSE, id |-> id + 1]

\* a faulty into_vec that leaves out the sort
into_vec_unsorted(recs, order) == [i \in 1..Len(order) |-> recs[order[i]]]

\* Records::into_vec, the map drained in `order`
into_vec(recs, order) == sort_by_key([i \in 1..Len(order) |-> recs[order[i]]])

\* str::to_lowercase on the letters the model uses; any other character is
\* its own lower case
UpperCase == <<"A", "B", "E">>
LowerCase == <<"a", "b", "e">>

to_lowercase(s) ==
    [i \in 1..Len(s) |->
        IF \E k \in 1..Len(UpperCase) : UpperCase[k] = s[i]
        THEN LowerCase[CHOOSE k \in 1..Len(UpperCase) : UpperCase[k] = s[i]]
        ELSE s[i]]

\* str::contains with a string pattern: pat is a substring of s
contains(s, pat) ==
    \E i \in 0..(Len(s) - Len(pat)) : SubSeq(s, i + 1, i + Len(pat)) = pat

\* a faulty search that compares the name with the query as they are
search_case_sensitive(recs, name, order) ==
    SelectSeq([i \in 1..Len(order) |-> recs[order[i]]],
              LAMBDA rec : contains(rec.name, name))

\* Records::search, values() yielding the records in `order`
search(recs, name, order) ==
    SelectSeq([i \in 1..Len(order) |-> recs[order[i]]],
              LAMBDA rec : contains(to_lowercase(rec.name), to_lowercase(name)))

-----------------------------------------------------------------------------
(* Line parser *)

Ok(rec) == [ok |-> TRUE, rec |-> Some(rec), err |-> "none"]
Err(e) == [ok |-> FALSE, rec |-> None, err |-> e]

\* Vec::get with a 0-based index
get(fields, i) == IF i + 1 <= Len(fields) THEN Some(fields[i + 1]) ELSE None

\* a faulty parse_record that takes an empty field 1 for a name
parse_record_any_name(record) ==
    LET fields == split(record, ",")
        f0 == get(fields, 0)
        f1 == get(fields, 1)
        f2 == get(fields, 2)
    IN  IF ~IsSome(f0) THEN Err("EmptyRecord")
        ELSE LET id == from_str_radix(f0[1])
             IN  IF ~id.ok THEN Err("InvalidId")
                 ELSE IF ~IsSome(f1) THEN Err("MissingField(name)")
                 ELSE Ok(Record(id.val, f1[1],
                                IF IsSome(f2) /\ f2[1] # <<>> THEN f2 ELSE None))

\* a faulty parse_record that takes the email from the last field of the line
parse_record_last_email(record) ==
    LET fields == split(record, ",")
        f0 == get(fields, 0)
        f1 == get(fields, 1)
        f2 == IF Len(fields) >= 3 THEN get(fields, Len(fields) - 1) ELSE None
    IN  IF ~IsSome(f0) THEN Err("EmptyRecord")
        ELSE LET id == from_str_radix(f0[1])
             IN  IF ~id.ok THEN Err("InvalidId")
                 ELSE IF ~(IsSome(f1) /\ f1[1] # <<>>) THEN Err("MissingField(name)")
                 ELSE Ok(Record(id.val, f1[1],
                                IF IsSome(f2) /\ f2[1] # <<>> THEN f2 ELSE None))

\* parse_record
parse_record(record) ==
    LET fields == split(record, ",")
        f0 == get(fields, 0)
        f1 == get(fields, 1)
        f2 == get(fields, 2)
    IN  IF ~IsSome(f0) THEN Err("EmptyRecord")
        ELSE LET id == from_str_radix(f0[1])
             IN  IF ~id.ok THEN Err("InvalidId")
                 ELSE IF ~(IsSome(f1) /\ f1[1] # <<>>) THEN Err("MissingField(name)")
                 ELSE Ok(Record(id.val, f1[1],
                                IF IsSome(f2) /\ f2[1] # <<>> THEN f2 ELSE None))

\* a faulty loop that gives up at the first line that fails to parse
RECURSIVE parse_lines_abort(_, _, _, _)
parse_lines_abort(lines, num, verbose, acc) ==
    IF num > Len(lines) THEN acc
    ELSE IF lines[num] = <<>> THEN parse_lines_abort(lines, num + 1, verbose, acc)
    ELSE LET r == parse_record(lines[num])
         IN  IF r.ok
             THEN parse_lines_abort(lines, num + 1, verbose,
                                    [acc EXCEPT !.recs = add(acc.recs, r.rec[1])])
             ELSE IF verbose
                  THEN [acc EXCEPT !.out = Append(acc.out, <<num, r.err, lines[num]>>)]
                  ELSE acc

\* the loop of parse_records from line number num (1-based) on; acc is the
\* store and what was printed so far
RECURSIVE parse_lines(_, _, _, _)
parse_lines(lines, num, verbose, acc) ==
    IF num > Len(lines) THEN acc
    ELSE LET record == lines[num]
         IN  IF record # <<>>
             THEN LET r == parse_record(record)
                  IN  IF r.ok
                      THEN parse_lines(lines, num + 1, verbose,
                                       [acc EXCEPT !.recs = add(acc.recs, r.rec[1])])
                      ELSE IF verbose
                           THEN parse_lines(lines, num + 1, verbose,
                                    [acc EXCEPT !.out = Append(acc.out, <<num, r.err, record>>)])
                           ELSE parse_lines(lines, num + 1, verbose, acc)
             ELSE parse_lines(lines, num + 1, verbose, acc)

\* parse_records: the store returned and the error reports printed
parse_records(records, verbose) ==
    parse_lines(split(records, "\n"), 1, verbose, [recs |-> new, out |-> <<>>])

-----------------------------------------------------------------------------
(* The record store driven call by call *)

\* the ids, names and emails the calls are made with
StoreIds == {-1, 2, 3, I64_MAX}
Names == {<<"a">>, <<"A", "b">>}
Emails == {None, Some(<<"e">>)}

NoCall ==
    [op |-> "none", id |-> 0, rec |-> None, pre |-> new, removed |-> None, next |-> None,
     name |-> <<>>, found |-> <<>>]

CodecIdle == cpc = "idle" /\ store0 = new /\ prior = <<>> /\ disk = <<>> /\ loaded = <<>>
RunIdle == file = <<>> /\ procs = <<>>
BillsIdle == bills = <<>> /\ ui = <<>>

InitStore ==
    /\ inner = new /\ last = new /\ gone = {} /\ ret = NoCall
    /\ CodecIdle /\ RunIdle /\ BillsIdle

\* a call of Records::add
Add(id, name, email) ==
    LET record == Record(id, name, email)
    IN  /\ inner' = add(inner, record)
        /\ last' = [k \in (DOMAIN last) \cup {id} |-> IF k = id THEN record ELSE last[k]]
        /\ gone' = gone \ {id}
        /\ ret' = [NoCall EXCEPT !.op = "add", !.id = id, !.rec = Some(record), !.pre = inner]
        /\ UNCHANGED <<cpc, store0, prior, disk, loaded, file, procs, bills, ui>>

\* a call of Records::edit
Edit(id, name, email) ==
    LET record == Record(id, name, email)
    IN  /\ inner' = edit(inner, id, name, email)
        /\ last' = [k \in (DOMAIN last) \cup {id} |-> IF k = id THEN record ELSE last[k]]
        /\ gone' = gone \ {id}
        /\ ret' = [NoCall EXCEPT !.op = "edit", !.id = id, !.rec = Some(record), !.pre = inner]
        /\ UNCHANGED <<cpc, store0, prior, disk, loaded, file, procs, bills, ui>>

\* a call of Records::remove
Remove(id) ==
    LET r == remove(inner, id)
    IN  /\ inner' = r.recs
        /\ last' = [k \in (DOMAIN last) \ {id} |-> last[k]]
        /\ gone' = IF id \in DOMAIN inner THEN gone \cup {id} ELSE gone
        /\ ret' = [NoCall EXCEPT !.op = "remove", !.id = id, !.pre = inner,
                                 !.removed = r.removed]
        /\ UNCHANGED <<cpc, store0, prior, disk, loaded, file, procs, bills, ui>>

\* a call of Records::next_id, under either overflow-checks setting
NextId ==
    \E order \in Orders(DOMAIN inner), checked \in BOOLEAN :
        /\ ret' = [NoCall EXCEPT !.op = "next_id", !.pre = inner,
                                 !.next = Some(next_id(inner, order, checked))]
        /\ UNCHANGED <<inner, last, gone, cpc, store0, prior, disk, loaded, file, procs, bills, ui>>

NextStore ==
    \/ \E id \in StoreIds, name \in Names, email \in Emails : Add(id, name, email)
    \/ \E id \in StoreIds, name \in Names, email \in Emails : Edit(id, name, email)
    \/ \E id \in StoreIds : Remove(id)
    \/ NextId

SpecStore == InitStore /\ [][NextStore]_vars

\* the ids of a sequence of records
IdsOf(v) == {v[i].id : i \in 1..Len(v)}

MaxOf(S) == CHOOSE m \in S : \A x \in S : x <= m

\* C2: whatever order the map yields its records in, into_vec is strictly
\* ascending by id (so no id occurs twice) and holds, for every id added or
\* edited and not removed since, exactly the record of the last call with it
C2_UniqueSortedLastWins ==
    \A order \in Orders(DOMAIN inner) :
        LET v == into_vec(inner, order)
        IN  /\ \A i, j \in 1..Len(v) : i < j => v[i].id < v[j].id
            /\ Len(v) = Cardinality(DOMAIN last)
            /\ \A k \in DOMAIN last : \E i \in 1..Len(v) : v[i] = last[k]

\* an id was added or edited again with another record, among other records
C2_Witness ==
    /\ ret.op \in {"add", "edit"}
    /\ ret.id \in DOMAIN ret.pre
    /\ ret.pre[ret.id] # ret.rec[1]
    /\ Cardinality(DOMAIN inner) >= 3

\* C3: next_id returns 1 on the empty store and otherwise max(ids) + 1
C3_NextIdIsMaxPlusOne ==
    ret.op = "next_id" =>
        /\ ~ret.next[1].panic
        /\ ret.next[1].id = IF DOMAIN ret.pre = {} THEN 1 ELSE MaxOf(DOMAIN ret.pre) + 1

\* C5: remove of an absent id reports None and leaves the store as it was;
\* remove of a present id reports the record, deletes that id only and keeps
\* every other record; a removed id is in no into_vec until it is added again
C5_RemoveSemantics ==
    /\ ret.op = "remove" =>
          IF ret.id \in DOMAIN ret.pre
          THEN /\ ret.removed = Some(ret.pre[ret.id])
               /\ DOMAIN inner = (DOMAIN ret.pre) \ {ret.id}
               /\ \A k \in DOMAIN inner : inner[k] = ret.pre[k]
          ELSE /\ ret.removed = None
               /\ inner = ret.pre
    /\ \A order \in Orders(DOMAIN inner) : IdsOf(into_vec(inner, order)) \cap gone = {}

\* a present id was removed from a store that keeps other records
C5_Witness ==
    /\ ret.op = "remove"
    /\ ret.id \in DOMAIN ret.pre
    /\ Cardinality(DOMAIN inner) >= 2
    /\ ret.id \in gone

\* C6: in every store, edit(id, name, email) and add(Record{id, name, email})
\* give the same store: the id maps to the new record, present before or not,
\* and every other record is as before; the store after a call of one is the
\* store the other gives
C6_EditIsUpsertLikeAdd ==
    /\ \A id \in StoreIds, name \in Names, email \in Emails :
          LET e == edit(inner, id, name, email)
              a == add(inner, Record(id, name, email))
          IN  /\ e = a
              /\ DOMAIN e = (DOMAIN inner) \cup {id}
              /\ e[id] = Record(id, name, email)
              /\ \A k \in (DOMAIN inner) \ {id} : e[k] = inner[k]
    /\ ret.op = "edit" => inner = add(ret.pre, ret.rec[1])
    /\ ret.op = "add" =>
          inner = edit(ret.pre, ret.rec[1].id, ret.rec[1].name, ret.rec[1].email)

\* edit inserted an id that was absent, into a store holding other records
C6_Witness ==
    /\ ret.op = "edit"
    /\ ret.id \notin DOMAIN ret.pre
    /\ ret.pre # new
    /\ ret.id \in DOMAIN inner

-----------------------------------------------------------------------------
(* File codec *)

\* the field names save_records writes first: b"id,name,email\n"
Header == <<"i", "d", ",", "n", "a", "m", "e", ",", "e", "m", "a", "i", "l", "\n">>

\* the byte that fills a file between its old end and a write past it
NUL == "NUL"

\* a faulty line format that writes no second comma when there is no email
format_line_no_comma(record) ==
    fmt_i64(record.id) \o <<",">> \o record.name
        \o (IF IsSome(record.email) THEN <<",">> \o record.email[1] ELSE <<>>) \o <<"\n">>

\* format!("{},{},{}\n", record.id, record.name, email), email "" when None
format_line(record) ==
    fmt_i64(record.id) \o <<",">> \o record.name \o <<",">>
        \o (IF IsSome(record.email) THEN record.email[1] ELSE <<>>) \o <<"\n">>

\* the buffers save_records hands to File::write, in order
save_buffers(recs, order) ==
    LET v == into_vec(recs, order)
    IN  <<Header>> \o [i \in 1..Len(v) |-> format_line(v[i])]

\* OpenOptions::new().write(true).truncate(true).open: the content is dropped
open_truncate(content) == <<>>

\* File::write accepting the first n bytes of buf at offset off
write_at(content, off, buf, n) ==
    LET end == off + n
        len == IF Len(content) > end THEN Len(content) ELSE end
    IN  [i \in 1..len |->
            IF i > off /\ i <= end THEN buf[i - off]
            ELSE IF i <= Len(content) THEN content[i]
            ELSE NUL]

\* the writes of save_records from buffer i on, each accepted in full
RECURSIVE write_bufs(_, _, _, _)
write_bufs(content, off, bufs, i) ==
    IF i > Len(bufs) THEN content
    ELSE write_bufs(write_at(content, off, bufs[i], Len(bufs[i])),
                    off + Len(bufs[i]), bufs, i + 1)

\* save_records on a file system that accepts every write in full: the
\* content of the file when it returns Ok
save_records(content, recs, order) ==
    write_bufs(open_truncate(content), 0, save_buffers(recs, order), 1)

\* load_records once the file is read: parse_records of its content
load_records(content, verbose) == parse_records(content, verbose)

-----------------------------------------------------------------------------
(* The codec run on its own: save a store and load it back; load a file *)

\* the largest number of lines of a file handed to the loader
MaxLines == 3

\* s1 , s2 , ... joined by sep
RECURSIVE Join(_, _)
Join(ss, sep) ==
    IF ss = <<>> THEN <<>>
    ELSE IF Len(ss) = 1 THEN ss[1]
    ELSE ss[1] \o <<sep>> \o Join(Tail(ss), sep)

\* the lines the files are made of: one per case of the line parser
FileLines ==
    { <<>>,                                          \* blank line
      <<"2", ",", "a">>,                             \* no email field
      <<"2", ",", "a", ",">>,                        \* empty email field
      <<"2", ",", "A", "b", ",", "e">>,              \* all three fields
      <<"+", "2", ",", "a", ",", "e", ",", "x">>,    \* signed id, a fourth field
      <<"-", "1", ",", "a", ",", "e">>,              \* negative id
      <<"1", "0", ",", "A", "b">>,                   \* two-digit id
      <<"2">>,                                       \* no name field
      <<"2", ",", ",", "e">>,                        \* empty name field
      <<"a", ",", "b">>,                             \* id not a number
      <<",", "a">>,                                  \* empty id field
      <<"9", "9", "9", ",", "a">>,                   \* id out of range
      SubSeq(Header, 1, Len(Header) - 1) }           \* the header line

RECURSIVE SeqsUpTo(_, _)
SeqsUpTo(S, n) ==
    IF n = 0 THEN {<<>>}
    ELSE LET shorter == SeqsUpTo(S, n - 1)
         IN  shorter \cup {Append(q, x) : q \in {r \in shorter : Len(r) = n - 1}, x \in S}

\* a file with a record, a blank line, two lines that fail and a line that
\* overwrites the first record
MixedFile ==
    Join(<< <<"2", ",", "a">>, <<>>, <<"a", ",", "b">>, <<"2", ",", ",", "e">>,
            <<"+", "2", ",", "A", "b", ",", "e", ",", "x">> >>, "\n")

FileContents == {Join(ls, "\n") : ls \in SeqsUpTo(FileLines, MaxLines)} \cup {MixedFile}

\* the stores handed to save_records: every record a caller can build
CodecIds == {-1, 2, 10}
CodecNames == {<<>>, <<"a">>, <<"A", ",", "b">>, <<"a", "\n", "b">>}
CodecEmails == {None, Some(<<>>), Some(<<"e">>)}
CodecRecords(id) == {Record(id, name, email) : name \in CodecNames, email \in CodecEmails}

CodecStores ==
    UNION {{f \in [S -> UNION {CodecRecords(id) : id \in S}] : \A id \in S : f[id].id = id}
           : S \in SUBSET CodecIds}

\* what the file held before the save
PriorContents == {<<>>, Join(<<Header, Header, Header>>, "x")}

StoreIdle == inner = new /\ last = new /\ gone = {} /\ ret = NoCall

InitCodec ==
    /\ \/ cpc = "store" /\ store0 \in CodecStores /\ disk \in PriorContents
       \/ cpc = "file" /\ store0 = new /\ disk \in FileContents
    /\ prior = disk
    /\ loaded = <<>>
    /\ StoreIdle /\ RunIdle /\ BillsIdle

\* save_records(store0) to the file
CodecSave ==
    /\ cpc = "store"
    /\ \E order \in Orders(DOMAIN store0) : disk' = save_records(disk, store0, order)
    /\ cpc' = "saved"
    /\ UNCHANGED <<store0, prior, loaded, inner, last, gone, ret, file, procs, bills, ui>>

\* load_records of the file, with and without the verbose flag
CodecLoad ==
    /\ cpc \in {"saved", "file", "stored"}
    /\ loaded' = [verbose \in BOOLEAN |-> load_records(disk, verbose)]
    /\ cpc' = CASE cpc = "saved" -> "reloaded"
                [] cpc = "file" -> "parsed"
                [] cpc = "stored" -> "restored"
    /\ UNCHANGED <<store0, prior, disk, inner, last, gone, ret, file, procs, bills, ui>>

\* save_records(store0) once more, to the file the first save left
CodecSaveAgain ==
    /\ cpc = "saved"
    /\ \E order \in Orders(DOMAIN store0) : disk' = save_records(disk, store0, order)
    /\ prior' = disk
    /\ cpc' = "resaved"
    /\ UNCHANGED <<store0, loaded, inner, last, gone, ret, file, procs, bills, ui>>

\* save_records of the store load_records returned, to the file it was loaded from
CodecSaveLoaded ==
    /\ cpc = "parsed"
    /\ store0' = loaded[FALSE].recs
    /\ \E order \in Orders(DOMAIN store0') : disk' = save_records(disk, store0', order)
    /\ prior' = disk
    /\ cpc' = "stored"
    /\ UNCHANGED <<loaded, inner, last, gone, ret, file, procs, bills, ui>>

NextCodec == CodecSave \/ CodecLoad \/ CodecSaveAgain \/ CodecSaveLoaded

SpecCodec == InitCodec /\ [][NextCodec]_vars

\* whether the text holds the character
Holds(s, c) == \E i \in 1..Len(s) : s[i] = c

\* every record has a name and no field holds the character
NamedWithout(recs, c) ==
    \A k \in DOMAIN recs :
        /\ recs[k].name # <<>>
        /\ ~Holds(recs[k].name, c)
        /\ IsSome(recs[k].email) => ~Holds(recs[k].email[1], c)

\* the store loaded back exports the sequence the saved store exports
SameExport(recs) ==
    \A verbose \in BOOLEAN :
        \A o1 \in Orders(DOMAIN loaded[verbose].recs), o0 \in Orders(DOMAIN recs) :
            into_vec(loaded[verbose].recs, o1) = into_vec(recs, o0)

C4_LoadTolerance ==
    cpc = "parsed" =>
        LET lines == split(disk, "\n")
            good == {i \in 1..Len(lines) : lines[i] # <<>> /\ parse_record(lines[i]).ok}
            bad == {i \in 1..Len(lines) : lines[i] # <<>> /\ ~parse_record(lines[i]).ok}
            rec(i) == parse_record(lines[i]).rec[1]
            got == loaded[FALSE].recs
            out == loaded[TRUE].out
        IN  /\ loaded[TRUE].recs = got
            /\ DOMAIN got = {rec(i).id : i \in good}
            /\ \A k \in DOMAIN got :
                  \E i \in good : /\ rec(i).id = k
                                  /\ got[k] = rec(i)
                                  /\ \A j \in good : rec(j).id = k => j <= i
            /\ good = {} => got = new
            /\ loaded[FALSE].out = <<>>
            /\ {out[n][1] : n \in 1..Len(out)} = bad
            /\ Len(out) = Cardinality(bad)

\* a file with a blank line, failing lines and a line overwriting an earlier id
C4_Witness ==
    /\ cpc = "parsed"
    /\ disk = MixedFile
    /\ loaded[FALSE].recs = (2 :> Record(2, <<"A", "b">>, Some(<<"e">>)))
    /\ Len(loaded[TRUE].out) = 2

\* the lines of the records with ids in S, in ascending order of id
RECURSIVE AscendingLines(_, _)
AscendingLines(recs, S) ==
    IF S = {} THEN <<>>
    ELSE LET m == CHOOSE x \in S : \A y \in S : x <= y
         IN  fmt_i64(m) \o <<",">> \o recs[m].name \o <<",">>
                 \o (IF recs[m].email = None THEN <<>> ELSE recs[m].email[1])
                 \o <<"\n">> \o AscendingLines(recs, S \ {m})

-----------------------------------------------------------------------------
(* run(): one invocation is a process that loads, applies its command to  *)
(* the store and saves, one system call at a time                           *)

Cmd(op, id, name, email) == [op |-> op, id |-> id, name |-> name, email |-> email]

\* an invocation that has not started: its command, and for the history the
\* content of the file when it starts
Fresh(cmd, content) ==
    [pc |-> "load", cmd |-> cmd, recs |-> new, bufs |-> <<>>, i |-> 0, off |-> 0,
     result |-> "running",
     out |-> <<>>,         \* what the invocation printed for the user
     file0 |-> content,    \* history: the file when the invocation started
     seen |-> None,        \* history: the content load_records read
     short |-> FALSE,      \* history: some write accepted less than it was given
     rank |-> 0]           \* history: 1 for the first save to return Ok, 2 for the next

\* the invocation ends with the result
End(p, result) ==
    procs' = [procs EXCEPT ![p].pc = "done", ![p].result = result]

\* load_records: File::open and read_to_string succeed, parse_records runs
Load(p) ==
    /\ procs[p].pc = "load"
    /\ \E verbose \in BOOLEAN :
          procs' = [procs EXCEPT ![p].pc = "apply",
                                 ![p].recs = load_records(file, verbose).recs,
                                 ![p].seen = Some(file)]
    /\ UNCHANGED <<file, inner, last, gone, ret, cpc, store0, prior, disk, loaded, bills, ui>>

\* load_records: File::open or read_to_string fails, `?` returns the error
LoadFail(p) ==
    /\ procs[p].pc = "load"
    /\ End(p, "io_error")
    /\ UNCHANGED <<file, inner, last, gone, ret, cpc, store0, prior, disk, loaded, bills, ui>>

\* The arms of run()'s match up to their save.  Each gives whether the arm
\* goes on to save_records, the store it would save, the result when it does
\* not save, and what it printed.
Arm(save, recs, result, out) ==
    [save |-> save, recs |-> recs, result |-> result, out |-> out]

\* Command::Add: next_id, add, save
run_add(recs, name, email, order, checked) ==
    LET n == next_id(recs, order, checked)
    IN  IF n.panic THEN Arm(FALSE, recs, "panic", <<>>)
        ELSE Arm(TRUE, add(recs, Record(n.id, name, email)), "running", <<>>)

\* Command::Edit: edit, save
run_edit(recs, id, name, email) ==
    Arm(TRUE, edit(recs, id, name, email), "running", <<>>)

\* a faulty List arm that saves the store it listed
run_list_saves(recs, order) ==
    Arm(TRUE, recs, "running", into_vec(recs, order))

\* Command::List: into_vec, one printed line per record, no save
run_list(recs, order) ==
    Arm(FALSE, recs, "listed", into_vec(recs, order))

\* a faulty Remove arm that saves whether or not the id was found
run_remove_always_saves(recs, id) ==
    Arm(TRUE, remove(recs, id).recs, "running", <<>>)

\* Command::Remove: save when remove returned a record, "record not found"
\* and no save when it returned None
run_remove(recs, id) ==
    LET r == remove(recs, id)
    IN  IF IsSome(r.removed) THEN Arm(TRUE, r.recs, "running", <<>>)
        ELSE Arm(FALSE, r.recs, "not_found", <<"record not found">>)

\* Command::Search: the found records printed, or "no records found"; no save
run_search(recs, query, order) ==
    LET results == search(recs, query, order)
    IN  Arm(FALSE, recs, "searched",
            IF results = <<>> THEN <<"no records found">> ELSE results)

\* the store call of the command: the arm of the match, then either the save
\* or the end of run()
Apply(p) ==
    /\ procs[p].pc = "apply"
    /\ \E order \in Orders(DOMAIN procs[p].recs), checked \in BOOLEAN :
          LET cmd == procs[p].cmd
              recs == procs[p].recs
              arm == CASE cmd.op = "Add" ->
                              run_add(recs, cmd.name, cmd.email, order, checked)
                       [] cmd.op = "Edit" -> run_edit(recs, cmd.id, cmd.name, cmd.email)
                       [] cmd.op = "List" -> run_list(recs, order)
                       [] cmd.op = "Remove" -> run_remove(recs, cmd.id)
                       [] cmd.op = "Search" -> run_search(recs, cmd.name, order)
          IN  procs' = [procs EXCEPT
                           ![p].pc = IF arm.save THEN "open" ELSE "done",
                           ![p].recs = arm.recs,
                           ![p].result = arm.result,
                           ![p].out = arm.out]
    /\ UNCHANGED <<file, inner, last, gone, ret, cpc, store0, prior, disk, loaded, bills, ui>>

\* save_records: the truncating open succeeds
Open(p) ==
    /\ procs[p].pc = "open"
    /\ file' = open_truncate(file)
    /\ \E order \in Orders(DOMAIN procs[p].recs) :
          procs' = [procs EXCEPT ![p].pc = "write",
                                 ![p].bufs = save_buffers(procs[p].recs, order),
                                 ![p].i = 1, ![p].off = 0]
    /\ UNCHANGED <<inner, last, gone, ret, cpc, store0, prior, disk, loaded, bills, ui>>

\* save_records: the open fails, `?` returns the error
OpenFail(p) ==
    /\ procs[p].pc = "open"
    /\ End(p, "io_error")
    /\ UNCHANGED <<file, inner, last, gone, ret, cpc, store0, prior, disk, loaded, bills, ui>>

\* file.write(buf)? returns Ok(n): n bytes of buffer i are in the file at the
\* handle's offset; the count n is dropped and the next buffer is next
Written(p, n) ==
    /\ file' = write_at(file, procs[p].off, procs[p].bufs[procs[p].i], n)
    /\ procs' = [procs EXCEPT
                    ![p].off = @ + n,
                    ![p].i = @ + 1,
                    ![p].short = @ \/ n < Len(procs[p].bufs[procs[p].i]),
                    ![p].pc = IF procs[p].i = Len(procs[p].bufs) THEN "flush" ELSE "write"]

\* a write that accepts the whole buffer
Write(p) ==
    /\ procs[p].pc = "write"
    /\ Written(p, Len(procs[p].bufs[procs[p].i]))
    /\ UNCHANGED <<inner, last, gone, ret, cpc, store0, prior, disk, loaded, bills, ui>>

\* a write that accepts less than the whole buffer: one byte, or all but one
WriteShort(p) ==
    /\ procs[p].pc = "write"
    /\ \E n \in {1, Len(procs[p].bufs[procs[p].i]) - 1} :
          /\ 0 < n /\ n < Len(procs[p].bufs[procs[p].i])
          /\ Written(p, n)
    /\ UNCHANGED <<inner, last, gone, ret, cpc, store0, prior, disk, loaded, bills, ui>>

\* a write that fails, `?` returns the error
WriteFail(p) ==
    /\ procs[p].pc = "write"
    /\ End(p, "io_error")
    /\ UNCHANGED <<file, inner, last, gone, ret, cpc, store0, prior, disk, loaded, bills, ui>>

\* file.flush() (nothing to do for a File) and Ok(())
Flush(p) ==
    /\ procs[p].pc = "flush"
    /\ procs' = [procs EXCEPT
                    ![p].pc = "done", ![p].result = "ok",
                    ![p].rank = 1 + Cardinality({q \in DOMAIN procs : procs[q].rank > 0})]
    /\ UNCHANGED <<file, inner, last, gone, ret, cpc, store0, prior, disk, loaded, bills, ui>>

\* a saved file of two records
SavedTwo ==
    Header \o <<"2", ",", "a", ",", "\n">> \o <<"3", ",", "A", "b", ",", "e", "\n">>

\* a saved file whose record has the largest id
SavedMax == Header \o fmt_i64(I64_MAX) \o <<",", "a", ",", "\n">>

\* a saved file whose records have the smallest and the largest id
SavedMinMax ==
    Header \o fmt_i64(I64_MIN) \o <<",", "A", "b", ",", "e", "\n">>
           \o fmt_i64(I64_MAX) \o <<",", "a", ",", "\n">>

RunFiles == {<<>>, Header, SavedTwo, SavedMax, SavedMinMax, MixedFile}

\* the names and emails the Add command is given: any text
AddNames == {<<"a">>, <<>>, <<"a", ",", "b">>}
AddEmails == {None, Some(<<"e">>), Some(<<>>)}

RunCommands ==
    {Cmd("Add", 0, name, email) : name \in AddNames, email \in AddEmails}
        \cup {Cmd("Edit", id, <<"A", "b">>, email) : id \in {2, 7}, email \in Emails}
        \cup {Cmd("Remove", id, <<>>, None) : id \in {2, 7}}
        \cup {Cmd("List", 0, <<>>, None)}
        \cup {Cmd("Search", 0, query, None) : query \in {<<>>, <<"a", "B">>, <<"e">>}}

InitRun ==
    /\ file \in RunFiles
    /\ procs \in [{1} -> {Fresh(cmd, file) : cmd \in RunCommands}]
    /\ StoreIdle /\ CodecIdle /\ BillsIdle

NextRun ==
    \/ \E p \in DOMAIN procs : Load(p)
    \/ \E p \in DOMAIN procs : LoadFail(p)
    \/ \E p \in DOMAIN procs : Apply(p)
    \/ \E p \in DOMAIN procs : Open(p)
    \/ \E p \in DOMAIN procs : OpenFail(p)
    \/ \E p \in DOMAIN procs : Write(p)
    \/ \E p \in DOMAIN procs : WriteShort(p)
    \/ \E p \in DOMAIN procs : WriteFail(p)
    \/ \E p \in DOMAIN procs : Flush(p)

SpecRun == InitRun /\ [][NextRun]_vars

\* the bytes save_records gave to write: buffer after buffer
RECURSIVE Concat(_)
Concat(bufs) == IF bufs = <<>> THEN <<>> ELSE bufs[1] \o Concat(Tail(bufs))

\* C7: when Add, Edit or Remove ends with an IOError the data file holds the
\* content it had before the operation
C7_IOErrorKeepsFile ==
    \A p \in DOMAIN procs : procs[p].result = "io_error" => file = procs[p].file0

\* C9: when save_records returns Ok the file holds the header line and the
\* full line of every record of the store
C9_OkSaveIsComplete ==
    \A p \in DOMAIN procs :
        (procs[p].result = "ok" /\ procs[p].rank > 0) => file = Concat(procs[p].bufs)

-----------------------------------------------------------------------------
(* Two invocations of run() on the same data file, their system calls      *)
(* interleaved; every call succeeds and every write is accepted in full    *)

RaceCommands ==
    {Cmd("Add", 0, <<"a">>, None), Cmd("Edit", 2, <<"A", "b">>, Some(<<"e">>)),
     Cmd("Edit", 7, <<"a">>, None), Cmd("Remove", 2, <<>>, None),
     Cmd("Remove", 3, <<>>, None)}

InitRace ==
    /\ file = SavedTwo
    /\ procs \in [{1, 2} -> {Fresh(cmd, file) : cmd \in RaceCommands}]
    /\ StoreIdle /\ CodecIdle /\ BillsIdle

NextRace ==
    \/ \E p \in DOMAIN procs : Load(p)
    \/ \E p \in DOMAIN procs : Apply(p)
    \/ \E p \in DOMAIN procs : Open(p)
    \/ \E p \in DOMAIN procs : Write(p)
    \/ \E p \in DOMAIN procs : Flush(p)

SpecRace == InitRace /\ [][NextRace]_vars

\* C8: when both operations have ended, the file is the complete output of
\* the save that returned last, and each operation loaded either the file as
\* it was at the start or the complete output of the other's save
C8_LastSaveWins ==
    (\A p \in DOMAIN procs : procs[p].pc = "done") =>
        /\ \A p \in DOMAIN procs :
              (procs[p].rank > 0 /\ \A q \in DOMAIN procs : procs[q].rank <= procs[p].rank)
                  => file = Concat(procs[p].bufs)
        /\ \A p \in DOMAIN procs :
              \/ procs[p].seen = Some(procs[p].file0)
              \/ \E q \in (DOMAIN procs) \ {p} :
                    procs[q].rank > 0 /\ procs[p].seen = Some(Concat(procs[q].bufs))

-----------------------------------------------------------------------------
(* Claims about one invocation of run() *)

\* the store load_records gave invocation p
LoadedBy(p) == load_records(procs[p].seen[1], FALSE).recs

\* C11: when Add has ended with Ok, loading the file yields every record the
\* load before the Add yielded, unchanged, and one more record: the given name
\* and email under the id next_id gave for the loaded store
C11_AddEndToEnd ==
    \A p \in DOMAIN procs :
        (procs[p].cmd.op = "Add" /\ procs[p].result = "ok") =>
            LET before == LoadedBy(p)
                after == load_records(file, FALSE).recs
                cmd == procs[p].cmd
            IN  \E order \in Orders(DOMAIN before), checked \in BOOLEAN :
                    LET n == next_id(before, order, checked)
                    IN  /\ ~n.panic
                        /\ n.id \notin DOMAIN before
                        /\ DOMAIN after = (DOMAIN before) \cup {n.id}
                        /\ \A k \in DOMAIN before : after[k] = before[k]
                        /\ after[n.id] = Record(n.id, cmd.name, cmd.email)

\* C20: once Add has made its store call, the store holds every record that
\* was loaded, unchanged, and exactly one more: next_id gave an id that no
\* loaded record has, also when ids are negative or the largest id is I64_MAX
C20_AddNeverOverwrites ==
    \A p \in DOMAIN procs :
        (procs[p].cmd.op = "Add" /\ procs[p].pc \notin {"load", "apply"}
                                 /\ IsSome(procs[p].seen)) =>
            LET before == LoadedBy(p)
                after == procs[p].recs
            IN  /\ procs[p].result # "panic"
                /\ Cardinality(DOMAIN after) = Cardinality(DOMAIN before) + 1
                /\ \A k \in DOMAIN before : k \in DOMAIN after /\ after[k] = before[k]

\* C12: Remove reaches save_records exactly when the id is in the loaded
\* store; when it is not, run() prints "record not found", ends without
\* opening the file for writing, and the file is the content it had, its
\* malformed and blank lines included
C12_RemoveSavesIffFound ==
    \A p \in DOMAIN procs :
        (procs[p].cmd.op = "Remove" /\ procs[p].pc \notin {"load", "apply"}
                                    /\ IsSome(procs[p].seen)) =>
            LET found == procs[p].cmd.id \in DOMAIN LoadedBy(p)
                saving == procs[p].pc \in {"open", "write", "flush"}
                              \/ procs[p].bufs # <<>>
                              \/ procs[p].result \in {"ok", "io_error"}
            IN  /\ saving <=> found
                /\ ~found => /\ procs[p].pc = "done"
                             /\ procs[p].out = <<"record not found">>
                             /\ file = procs[p].file0

\* Remove of an id that is not in a file with a blank and malformed lines has
\* ended
C12_Witness ==
    \E p \in DOMAIN procs :
        /\ procs[p].cmd.op = "Remove"
        /\ procs[p].pc = "done"
        /\ procs[p].result = "not_found"
        /\ procs[p].file0 = MixedFile
        /\ file = MixedFile
        /\ procs[p].cmd.id \notin DOMAIN LoadedBy(p)

\* C13: List and Search never reach save_records: run() goes from the store
\* call to its end, nothing is opened or written, and the file is the content
\* it had, whether records were printed or not
C13_ListSearchReadOnly ==
    \A p \in DOMAIN procs :
        procs[p].cmd.op \in {"List", "Search"} =>
            /\ procs[p].pc \in {"load", "apply", "done"}
            /\ procs[p].bufs = <<>>
            /\ file = procs[p].file0

\* Search has ended with "no records found" on a file that holds records
C13_Witness ==
    \E p \in DOMAIN procs :
        /\ procs[p].cmd.op = "Search"
        /\ procs[p].pc = "done"
        /\ procs[p].result = "searched"
        /\ procs[p].out = <<"no records found">>
        /\ LoadedBy(p) # new

-----------------------------------------------------------------------------
(* parse_record on its own: one line, parsed once *)

MaxLineLen == 5

LineChars == {"1", "9", "-", ",", "a"}

\* the lines given to parse_record: every text of up to MaxLineLen characters,
\* the empty one included, and the lines of the files above
ParseLines == SeqsUpTo(LineChars, MaxLineLen) \cup FileLines

InitParse ==
    /\ cpc = "line"
    /\ disk \in ParseLines
    /\ loaded = <<>>
    /\ store0 = new /\ prior = <<>>
    /\ StoreIdle /\ RunIdle /\ BillsIdle

\* parse_record(disk)
ParseLine ==
    /\ cpc = "line"
    /\ loaded' = parse_record(disk)
    /\ cpc' = "lineparsed"
    /\ UNCHANGED <<store0, prior, disk, inner, last, gone, ret, file, procs, bills, ui>>

NextParse == ParseLine

SpecParse == InitParse /\ [][NextParse]_vars

\* the fields of the parsed line
Fields == split(disk, ",")

\* the number a text of decimal digits denotes
RECURSIVE Decimal(_)
Decimal(digits) ==
    IF digits = <<>> THEN 0
    ELSE 10 * Decimal(SubSeq(digits, 1, Len(digits) - 1)) + DigitVal(digits[Len(digits)])

\* text is a base-10 integer of the id type: an optional sign, one or more
\* digits, a value from I64_MIN to I64_MAX
IsInteger(text) ==
    LET signed == text # <<>> /\ text[1] \in {"+", "-"}
        digits == IF signed THEN Tail(text) ELSE text
    IN  /\ digits # <<>>
        /\ \A i \in 1..Len(digits) : IsDigit(digits[i])
        /\ LET v == IF text[1] = "-" THEN 0 - Decimal(digits) ELSE Decimal(digits)
           IN  I64_MIN <= v /\ v <= I64_MAX

IntegerOf(text) ==
    IF text[1] = "-" THEN 0 - Decimal(Tail(text))
    ELSE IF text[1] = "+" THEN Decimal(Tail(text))
    ELSE Decimal(text)

\* C14: parse_record of the empty line returns the error EmptyRecord
C14_EmptyLineIsEmptyRecord ==
    (cpc = "lineparsed" /\ disk = <<>>) =>
        (~loaded.ok /\ loaded.err = "EmptyRecord")

\* C15: parse_record never returns a record whose name is empty; a line whose
\* field 0 is an integer and whose field 1 is absent or empty gives
\* MissingField("name"); a line whose field 0 is not an integer gives
\* InvalidId whatever its name field is
C15_ParserNameInvariant ==
    cpc = "lineparsed" =>
        /\ loaded.ok => loaded.rec[1].name # <<>>
        /\ (IsInteger(Fields[1]) /\ (Len(Fields) < 2 \/ Fields[2] = <<>>)) =>
               (~loaded.ok /\ loaded.err = "MissingField(name)")
        /\ ~IsInteger(Fields[1]) => (~loaded.ok /\ loaded.err = "InvalidId")

\* "1,,a" was parsed: an integer id, an empty name, an email
C15_Witness ==
    /\ cpc = "lineparsed"
    /\ disk = <<"1", ",", ",", "a">>
    /\ loaded.err = "MissingField(name)"

\* C16: a line that parses gives the record of its fields 0, 1 and 2 alone:
\* no email when field 2 is absent or empty, otherwise the text of field 2;
\* any further field leaves the record as it is
C16_ParserOptionalEmail ==
    (cpc = "lineparsed" /\ loaded.ok) =>
        LET email == IF Len(Fields) < 3 \/ Fields[3] = <<>> THEN None
                     ELSE Some(Fields[3])
        IN  loaded.rec[1] = Record(IntegerOf(Fields[1]), Fields[2], email)

\* a line of four fields was parsed with its field 2 as the email, and a line
\* of four fields with an empty field 2 was parsed with no email
C16_Witness ==
    /\ cpc = "lineparsed"
    /\ loaded.ok
    /\ \/ disk = <<"+", "2", ",", "a", ",", "e", ",", "x">>
             /\ loaded.rec[1].email = Some(<<"e">>)
       \/ disk = <<"1", ",", "a", ",", ",">> /\ loaded.rec[1].email = None

-----------------------------------------------------------------------------
(* Records::search on its own: a store, searched once *)

SearchIds == {2, 3, 12}
SearchNames == {<<"a">>, <<"A", "b">>, <<"B", "a", "2">>}
SearchEmails == {None, Some(<<"a", "b">>)}
SearchQueries ==
    {<<>>, <<"a">>, <<"A", "B">>, <<"b", "a">>, <<"2">>, <<"1">>, <<"e">>}

\* the stores searched: any subset of the ids, each with any name and email
SearchStores ==
    UNION {[ids -> SearchNames \X SearchEmails] : ids \in SUBSET SearchIds}

InitSearch ==
    /\ \E s \in SearchStores :
          inner = [k \in DOMAIN s |-> Record(k, s[k][1], s[k][2])]
    /\ last = inner /\ gone = {} /\ ret = NoCall
    /\ CodecIdle /\ RunIdle /\ BillsIdle

\* a call of Records::search; it borrows the store and leaves it as it is
Search(name) ==
    /\ ret.op = "none"
    /\ \E order \in Orders(DOMAIN inner) :
          ret' = [NoCall EXCEPT !.op = "search", !.pre = inner, !.name = name,
                                !.found = search(inner, name, order)]
    /\ UNCHANGED <<inner, last, gone, cpc, store0, prior, disk, loaded, file, procs, bills, ui>>

NextSearch == \E name \in SearchQueries : Search(name)

SpecSearch == InitSearch /\ [][NextSearch]_vars

\* c and d are the same character or the two cases of one letter
SameLetter(c, d) ==
    \/ c = d
    \/ \E k \in 1..Len(UpperCase) : {c, d} = {UpperCase[k], LowerCase[k]}

\* query occurs in name at some offset, case ignored
OccursIgnoringCase(query, name) ==
    \E off \in 0..(Len(name) - Len(query)) :
        \A j \in 1..Len(query) : SameLetter(name[off + j], query[j])

\* C17: search returns, each once, exactly the records of the store whose
\* name holds the query as a substring with case ignored (so never a record
\* for its email or its id alone); the empty query returns every record; the
\* store is as it was before the call
C17_SearchSemantics ==
    ret.op = "search" =>
        LET found == ret.found
            all == {inner[k] : k \in DOMAIN inner}
        IN  /\ {found[i] : i \in 1..Len(found)}
                   = {rec \in all : OccursIgnoringCase(ret.name, rec.name)}
            /\ \A i, j \in 1..Len(found) : found[i] = found[j] => i = j
            /\ ret.name = <<>> => {found[i] : i \in 1..Len(found)} = all
            /\ inner = ret.pre

\* the query "AB" found the record named "Ab" and left out a record named
\* "a" whose email is "ab"
C17_Witness ==
    /\ ret.op = "search"
    /\ ret.name = <<"A", "B">>
    /\ Len(ret.found) = 1
    /\ ret.found[1].name = <<"A", "b">>
    /\ \E k \in DOMAIN inner :
          inner[k].name = <<"a">> /\ inner[k].email = Some(<<"a", "b">>)

-----------------------------------------------------------------------------
(* Claims about saving twice and about saving what was loaded *)

-----------------------------------------------------------------------------
(* Bill manager (src/bin/p1-example.rs) *)

\* longest amount typed, in characters
MaxInputLen == 2

Whitespace == {" ", "\n", "\t", "\r"}

\* str::trim: leading and trailing whitespace removed
RECURSIVE trim(_)
trim(s) ==
    IF s = <<>> THEN <<>>
    ELSE IF s[1] \in Whitespace THEN trim(Tail(s))
    ELSE IF s[Len(s)] \in Whitespace THEN trim(SubSeq(s, 1, Len(s) - 1))
    ELSE s

\* get_input, read_line having put `buffer` (the typed line and its newline,
\* or nothing at the end of the input) into the buffer
get_input(buffer) ==
    LET input == trim(buffer)
    IN  IF input = <<>> THEN None ELSE Some(input)

\* an f64: a finite decimal (sign, integer digits, fraction digits), an
\* infinity or a NaN
Finite(neg, int, frac) == [kind |-> "finite", neg |-> neg, int |-> int, frac |-> frac]
Infinite(neg) == [kind |-> "inf", neg |-> neg, int |-> 0, frac |-> <<>>]
NaN == [kind |-> "nan", neg |-> FALSE, int |-> 0, frac |-> <<>>]

\* the value of a run of decimal digits; 0 for no digits
RECURSIVE digits_value(_)
digits_value(digits) ==
    IF digits = <<>> THEN 0
    ELSE 10 * digits_value(SubSeq(digits, 1, Len(digits) - 1))
             + DigitVal(digits[Len(digits)])

\* str::parse::<f64> on texts without an exponent: an optional sign, then
\* "inf", "infinity", "nan", or digits with at most one point and at least
\* one digit
parse_f64(input) ==
    LET signed == input # <<>> /\ input[1] \in {"+", "-"}
        neg == signed /\ input[1] = "-"
        body == IF signed THEN Tail(input) ELSE input
        points == {i \in 1..Len(body) : body[i] = "."}
        point == IF points = {} THEN Len(body) + 1 ELSE CHOOSE i \in points : TRUE
        int == SubSeq(body, 1, point - 1)
        frac == SubSeq(body, point + 1, Len(body))
        AllDigits(t) == \A i \in 1..Len(t) : IsDigit(t[i])
    IN  IF body \in {<<"i", "n", "f">>, <<"i", "n", "f", "i", "n", "i", "t", "y">>}
        THEN [ok |-> TRUE, val |-> Infinite(neg)]
        ELSE IF body = <<"n", "a", "n">> THEN [ok |-> TRUE, val |-> NaN]
        ELSE IF AllDigits(int) /\ AllDigits(frac) /\ Len(int) + Len(frac) > 0
        THEN [ok |-> TRUE, val |-> Finite(neg, digits_value(int), frac)]
        ELSE [ok |-> FALSE, val |-> NaN]

\* one round of the loop of get_bill_amount on the line read: None returned,
\* Some(amount) returned, or "Please enter a number" and the next round
get_bill_amount(buffer) ==
    LET input == get_input(buffer)
    IN  IF ~IsSome(input) THEN [kind |-> "none", amount |-> NaN]
        ELSE LET parsed_input == parse_f64(input[1])
             IN  IF parsed_input.ok THEN [kind |-> "some", amount |-> parsed_input.val]
                 ELSE [kind |-> "retry", amount |-> NaN]

Bill(name, amount) == [name |-> name, amount |-> amount]

\* Bills::new
Bills_new == <<>>

\* Bills::add: HashMap::insert under the bill's name
Bills_add(bs, bill) ==
    [k \in (DOMAIN bs) \cup {bill.name} |-> IF k = bill.name THEN bill ELSE bs[k]]

\* Bills::remove: whether a bill was removed, and the bills left
Bills_remove(bs, name) ==
    [found |-> name \in DOMAIN bs, bills |-> [k \in (DOMAIN bs) \ {name} |-> bs[k]]]

\* a faulty update that adds the bill when the name is not there
Bills_update_inserts(bs, name, amount) ==
    [found |-> name \in DOMAIN bs, bills |-> Bills_add(bs, Bill(name, amount))]

\* Bills::update: get_mut and the new amount, or false and nothing changed
Bills_update(bs, name, amount) ==
    IF name \in DOMAIN bs
    THEN [found |-> TRUE, bills |-> [bs EXCEPT ![name].amount = amount]]
    ELSE [found |-> FALSE, bills |-> bs]

\* what read_line can put into the buffer: a typed text and its newline, or
\* nothing at the end of the input
Typed(texts) == {t \o <<"\n">> : t \in texts} \cup {<<>>}

MenuLines ==
    Typed({<<>>, <<"1">>, <<"2">>, <<"3">>, <<"4">>, <<" ", "4">>, <<"x">>})

NameLines == Typed({<<>>, <<" ">>, <<"a">>, <<"b">>, <<" ", "a", " ">>})

AmountChars == {"5", ".", "-", "x", " "}

AmountLines ==
    Typed(SeqsUpTo(AmountChars, MaxInputLen)
              \cup {<<"i", "n", "f">>, <<"n", "a", "n">>, <<"+", "5">>, <<"\t">>})

\* main_menu between two reads.  pc is the prompt it waits at; flow is the
\* menu entry chosen last; name is the name the flow has read.  History:
\* `from` and `line` are the prompt and the buffer of the last read, bills0
\* the bills when the flow was entered.
Ui(pc, flow, name, from, line, bills0) ==
    [pc |-> pc, flow |-> flow, name |-> name, from |-> from, line |-> line,
     bills0 |-> bills0]

InitBills ==
    /\ bills = Bills_new
    /\ ui = Ui("menu", "none", <<>>, "start", <<>>, Bills_new)
    /\ StoreIdle /\ CodecIdle /\ RunIdle

\* main_menu: the selection is read and the flow entered; "2" lists the bills
\* and comes back; no data or any other entry ends the program
MainMenu(buffer) ==
    /\ ui.pc = "menu"
    /\ LET input == get_input(buffer)
           choice == IF ~IsSome(input) THEN "return"
                     ELSE CASE input[1] = <<"1">> -> "add"
                            [] input[1] = <<"2">> -> "view"
                            [] input[1] = <<"3">> -> "remove"
                            [] input[1] = <<"4">> -> "update"
                            [] OTHER -> "break"
           pc == CASE choice = "add" -> "add_name"
                   [] choice = "view" -> "menu"
                   [] choice = "remove" -> "remove_name"
                   [] choice = "update" -> "update_name"
                   [] OTHER -> "exit"
       IN  ui' = Ui(pc, choice, <<>>, "menu", buffer, bills)
    /\ UNCHANGED <<bills, inner, last, gone, ret, cpc, store0, prior, disk, loaded,
                   file, procs>>

\* add_bill_menu: the name is read
AddName(buffer) ==
    /\ ui.pc = "add_name"
    /\ LET name == get_input(buffer)
       IN  ui' = IF IsSome(name)
                 THEN [ui EXCEPT !.pc = "add_amount", !.name = name[1],
                                 !.from = ui.pc, !.line = buffer]
                 ELSE [ui EXCEPT !.pc = "menu", !.from = ui.pc, !.line = buffer]
    /\ UNCHANGED <<bills, inner, last, gone, ret, cpc, store0, prior, disk, loaded,
                   file, procs>>

\* add_bill_menu: a line is read by get_bill_amount; with an amount the bill
\* is added
AddAmount(buffer) ==
    /\ ui.pc = "add_amount"
    /\ LET amount == get_bill_amount(buffer)
       IN  /\ ui' = [ui EXCEPT !.pc = IF amount.kind = "retry" THEN ui.pc ELSE "menu",
                               !.from = ui.pc, !.line = buffer]
           /\ bills' = IF amount.kind = "some"
                       THEN Bills_add(bills, Bill(ui.name, amount.amount))
                       ELSE bills
    /\ UNCHANGED <<inner, last, gone, ret, cpc, store0, prior, disk, loaded,
                   file, procs>>

\* remove_bill_menu: the name is read and the bill removed
RemoveName(buffer) ==
    /\ ui.pc = "remove_name"
    /\ LET name == get_input(buffer)
       IN  /\ ui' = [ui EXCEPT !.pc = "menu", !.from = ui.pc, !.line = buffer,
                               !.name = IF IsSome(name) THEN name[1] ELSE ui.name]
           /\ bills' = IF IsSome(name) THEN Bills_remove(bills, name[1]).bills
                       ELSE bills
    /\ UNCHANGED <<inner, last, gone, ret, cpc, store0, prior, disk, loaded,
                   file, procs>>

\* update_bill_menu: the name is read
UpdateName(buffer) ==
    /\ ui.pc = "update_name"
    /\ LET name == get_input(buffer)
       IN  ui' = IF IsSome(name)
                 THEN [ui EXCEPT !.pc = "update_amount", !.name = name[1],
                                 !.from = ui.pc, !.line = buffer]
                 ELSE [ui EXCEPT !.pc = "menu", !.from = ui.pc, !.line = buffer]
    /\ UNCHANGED <<bills, inner, last, gone, ret, cpc, store0, prior, disk, loaded,
                   file, procs>>

\* update_bill_menu: a line is read by get_bill_amount; with an amount the
\* bill of that name is updated
UpdateAmount(buffer) ==
    /\ ui.pc = "update_amount"
    /\ LET amount == get_bill_amount(buffer)
       IN  /\ ui' = [ui EXCEPT !.pc = IF amount.kind = "retry" THEN ui.pc ELSE "menu",
                               !.from = ui.pc, !.line = buffer]
           /\ bills' = IF amount.kind = "some"
                       THEN Bills_update(bills, ui.name, amount.amount).bills
                       ELSE bills
    /\ UNCHANGED <<inner, last, gone, ret, cpc, store0, prior, disk, loaded,
                   file, procs>>

NextBills ==
    \/ \E buffer \in MenuLines : MainMenu(buffer)
    \/ \E buffer \in NameLines : AddName(buffer)
    \/ \E buffer \in AmountLines : AddAmount(buffer)
    \/ \E buffer \in NameLines : RemoveName(buffer)
    \/ \E buffer \in NameLines : UpdateName(buffer)
    \/ \E buffer \in AmountLines : UpdateAmount(buffer)

SpecBills == InitBills /\ [][NextBills]_vars

\* the user entered no data: nothing but whitespace, or nothing at all
NoData(buffer) == \A i \in 1..Len(buffer) : buffer[i] \in Whitespace

\* the buffer without the whitespace around what was typed
Entered(buffer) ==
    LET at == {i \in 1..Len(buffer) : buffer[i] \notin Whitespace}
    IN  IF at = {} THEN <<>>
        ELSE SubSeq(buffer, CHOOSE i \in at : \A j \in at : i <= j,
                            CHOOSE i \in at : \A j \in at : j <= i)

\* text is written as a number: an optional sign, then inf, infinity, nan, or
\* digits and at most one point with a digit somewhere
Numeric(text) ==
    LET from == IF text # <<>> /\ text[1] \in {"+", "-"} THEN 2 ELSE 1
        at == from..Len(text)
    IN  \/ SubSeq(text, from, Len(text)) \in
               {<<"i", "n", "f">>, <<"n", "a", "n">>,
                <<"i", "n", "f", "i", "n", "i", "t", "y">>}
        \/ /\ \A i \in at : IsDigit(text[i]) \/ text[i] = "."
           /\ Cardinality({i \in at : text[i] = "."}) <= 1
           /\ \E i \in at : IsDigit(text[i])

NamePrompts == {"add_name", "remove_name", "update_name"}
AmountPrompts == {"add_amount", "update_amount"}

\* C21: in the add, remove and update flows, a read that gets no data, at the
\* name or at the amount prompt, leads back to the main menu with the bills
\* as they were when the flow was entered; an amount that is not a number
\* leaves the flow at the amount prompt and the bills as they were; and the
\* update flow with a name that no bill has leaves the bills as they were
C21_GoingBack ==
    /\ (ui.from \in NamePrompts \cup AmountPrompts /\ NoData(ui.line)) =>
           (ui.pc = "menu" /\ bills = ui.bills0)
    /\ (ui.from \in AmountPrompts /\ ~NoData(ui.line) /\ ~Numeric(Entered(ui.line))) =>
           (ui.pc = ui.from /\ bills = ui.bills0)
    /\ (ui.flow = "update" /\ ui.from \in {"update_name", "update_amount"}
                           /\ ui.name \notin DOMAIN ui.bills0) =>
           bills = ui.bills0

\* with a bill stored, the update flow got a name that no bill has and then
\* an amount, and is back at the menu
C21_Witness ==
    /\ ui.flow = "update"
    /\ ui.from = "update_amount"
    /\ ui.pc = "menu"
    /\ ~NoData(ui.line)
    /\ Numeric(Entered(ui.line))
    /\ ui.bills0 # Bills_new
    /\ ui.name \notin DOMAIN ui.bills0

====
